---- MODULE Spec2Model ----
(***************************************************************************)
(* Model of the structured logger in src/src/logger.ts: the constructor,   *)
(* the five per-severity emission methods, the shared private log routine, *)
(* the injected sink and the default sink, together with the pieces of the *)
(* environment the logger reads (the DENO_ENV variable and the clock).     *)
(***************************************************************************)
EXTENDS Integers, Sequences, FiniteSets, TLC

(***************************************************************************)
(* Bounds of the model.                                                    *)
(***************************************************************************)
\* emission calls made on the logger in one behaviour
MaxCalls == 2

(***************************************************************************)
(* JavaScript values.  Every value is a record of the same shape, so that  *)
(* values of different JavaScript types can be compared.                   *)
(***************************************************************************)
Undefined == [t |-> "undefined", s |-> "", n |-> 0]
Null == [t |-> "null", s |-> "", n |-> 0]
NaN == [t |-> "number", s |-> "NaN", n |-> 0]
Str(x) == [t |-> "string", s |-> x, n |-> 0]
Num(k) == [t |-> "number", s |-> "", n |-> k]

\* a ?? b
Nullish(a, b) == IF a.t \in {"undefined", "null"} THEN b ELSE a

\* a || b on string-or-undefined operands (the documented env default)
OrElse(a, b) == IF a.t \in {"undefined", "null"} \/ a = Str("") THEN b ELSE a

\* a < b on the values the priority table can yield: a comparison with
\* undefined (or NaN) is false
JsLess(a, b) ==
    /\ a.t = "number" /\ a.s = ""
    /\ b.t = "number" /\ b.s = ""
    /\ a.n < b.n

\* The empty object {}
EmptyObject == [k \in {} |-> Undefined]

\* { ...base, ...over }: the keys of both, the later spread winning
Spread(base, over) == over @@ base

(***************************************************************************)
(* types.ts and the priority table                                         *)
(***************************************************************************)
LogLevel == {"debug", "info", "warn", "error", "critical"}

LEVEL_PRIORITY == [debug |-> 0, info |-> 1, warn |-> 2, error |-> 3, critical |-> 4]

\* LEVEL_PRIORITY[name] for an arbitrary run-time string: undefined when the
\* name is not one of the five keys
PriorityOf(name) ==
    IF name.t = "string" /\ name.s \in DOMAIN LEVEL_PRIORITY
    THEN Num(LEVEL_PRIORITY[name.s])
    ELSE Undefined

(***************************************************************************)
(* Date.prototype.toISOString for instants in the first second of the      *)
(* epoch: milliseconds are rendered as three digits.                       *)
(***************************************************************************)
Digits == <<"0", "1", "2", "3", "4", "5", "6", "7", "8", "9">>

Pad3(ms) ==
    Digits[((ms \div 100) % 10) + 1] \o Digits[((ms \div 10) % 10) + 1]
        \o Digits[(ms % 10) + 1]

ToISOString(ms) == "1970-01-01T00:00:00." \o Pad3(ms) \o "Z"

(***************************************************************************)
(* JSON.stringify and JSON.parse on flat objects.  A serialized object is  *)
(* a map from member names to literals.  stringify omits members whose     *)
(* value is undefined and renders NaN as the literal null.                 *)
(***************************************************************************)
JsonLiteral(v) ==
    CASE v.t = "string" -> [lit |-> "string", s |-> v.s, n |-> 0]
      [] v.t = "number" /\ v.s = "" -> [lit |-> "number", s |-> "", n |-> v.n]
      [] OTHER -> [lit |-> "null", s |-> "", n |-> 0]

JsonStringify(obj) ==
    [k \in {j \in DOMAIN obj : obj[j].t # "undefined"} |-> JsonLiteral(obj[k])]

JsonParseLiteral(l) ==
    CASE l.lit = "string" -> Str(l.s)
      [] l.lit = "number" -> Num(l.n)
      [] OTHER -> Null

JsonParse(text) == [k \in DOMAIN text |-> JsonParseLiteral(text[k])]

(***************************************************************************)
(* Inputs.                                                                 *)
(***************************************************************************)
\* A function value (the caller's sink, or the logger's default sink)
Fn(name) == [t |-> "function", s |-> name, n |-> 0]

\* obj[key], undefined when the key is absent
Get(obj, key) == IF key \in DOMAIN obj THEN obj[key] ELSE Undefined

\* Values of options.minLevel: absent, the five names, and a name outside
\* the LogLevel type that reaches the constructor unchecked at run time
MinLevelInputs == {Undefined, Str("verbose")} \cup {Str(l) : l \in LogLevel}

ServiceNameInputs == {Undefined, Str("service-name")}

EnvInputs == {Undefined, Str("prod")}

\* Values of options.output: absent, or a sink the caller supplies
OutputInputs == {Undefined, Fn("custom")}

\* An options object holds only the keys the caller supplied
MakeOptions(minLevel, serviceName, envOpt, outputOpt) ==
    LET all == [minLevel |-> minLevel, serviceName |-> serviceName,
                env |-> envOpt, output |-> outputOpt]
    IN  [k \in {j \in DOMAIN all : all[j] # Undefined} |-> all[k]]

OptionsInputs ==
    {MakeOptions(l, sv, e, o) : l \in MinLevelInputs, sv \in ServiceNameInputs,
                                e \in EnvInputs, o \in OutputInputs}

\* Values of the DENO_ENV variable: unset, set to the empty string, set
DenoEnvInputs == {Undefined, Str(""), Str("staging")}

\* An emission call: the (message, data) arguments, the instant the clock
\* shows while the call runs, and whether the caller's sink raises when it is
\* handed this call's entry.  data is undefined when the caller passes no
\* second argument
CallInputs ==
    { [at |-> 0, message |-> "Should not log", data |-> Undefined, raises |-> FALSE],
      [at |-> 512, message |-> "Test message",
       data |-> [key |-> Str("value"), user |-> Num(42), level |-> Str("bogus"),
                 ratio |-> NaN],
       raises |-> TRUE],
      [at |-> 999, message |-> "",
       data |-> [message |-> Str("y"), service |-> Null, env |-> Str("local"),
                 timestamp |-> Num(0), key |-> Undefined],
       raises |-> FALSE] }

\* The error a failing sink raises
SinkError == "SinkError"

(***************************************************************************)
(* State.                                                                  *)
(***************************************************************************)
VARIABLES
    denoEnv,        \* the DENO_ENV variable of the process
    envReads,       \* what each Deno.env.get('DENO_ENV') so far returned
    constructed,    \* whether new Logger(options) has run
    options,        \* the options object the constructor received
    minPriority,    \* Logger.minPriority
    service,        \* Logger.service
    env,            \* Logger.env
    output,         \* Logger.output
    calls,          \* the emission calls made so far: severity, how each ended
    sinkCalls,      \* the invocations of the sink so far
    stdout,         \* the lines the default sink wrote
    allocated       \* the number of entry objects constructed so far

vars == <<denoEnv, envReads, constructed, options, minPriority, service, env,
          output, calls, sinkCalls, stdout, allocated>>

config == <<envReads, constructed, options, minPriority, service, env, output>>

history == <<calls, sinkCalls, stdout, allocated>>

Init ==
    /\ denoEnv \in DenoEnvInputs
    /\ envReads = <<>>
    /\ constructed = FALSE
    /\ options = EmptyObject
    /\ minPriority = Undefined
    /\ service = Undefined
    /\ env = Undefined
    /\ output = Undefined
    /\ calls = <<>>
    /\ sinkCalls = <<>>
    /\ stdout = <<>>
    /\ allocated = 0

(***************************************************************************)
(* The environment: the process may change the variable at any time.       *)
(***************************************************************************)
SetDenoEnv ==
    /\ \E v \in DenoEnvInputs : v # denoEnv /\ denoEnv' = v
    /\ UNCHANGED <<config, history>>

(***************************************************************************)
(* Logger.constructor                                                      *)
(***************************************************************************)
\* this.minPriority = LEVEL_PRIORITY[options.minLevel ?? 'info']
ResolveMinPriority(opts) == PriorityOf(Nullish(Get(opts, "minLevel"), Str("info")))

\* this.env = options.env ?? Deno.env.get('DENO_ENV') ?? 'dev'
ResolveEnv(opts, envVar) == Nullish(Nullish(Get(opts, "env"), envVar), Str("dev"))

\* this.output = options.output ?? (entry => console.log(JSON.stringify(entry)))
ResolveOutput(opts) == Nullish(Get(opts, "output"), Fn("default"))

Construct ==
    /\ ~constructed
    /\ \E opts \in OptionsInputs :
        /\ options' = opts
        /\ minPriority' = ResolveMinPriority(opts)
        /\ service' = Get(opts, "serviceName")
        /\ env' = ResolveEnv(opts, denoEnv)
        /\ output' = ResolveOutput(opts)
        \* a ?? b evaluates b only when a is nullish
        /\ envReads' = IF Get(opts, "env") = Undefined
                       THEN Append(envReads, denoEnv)
                       ELSE envReads
    /\ constructed' = TRUE
    /\ UNCHANGED <<denoEnv, history>>

(***************************************************************************)
(* Logger.log and the five emission methods                                *)
(***************************************************************************)
\* The comparison with its operands exchanged
BelowThresholdSwapped(level, minP) == JsLess(minP, PriorityOf(Str(level)))

\* The comparison made with <= instead of <
BelowThresholdOrEqual(level, minP) ==
    JsLess(PriorityOf(Str(level)), minP) \/ PriorityOf(Str(level)) = minP

\* LEVEL_PRIORITY[level] < this.minPriority
BelowThreshold(level, minP) == JsLess(PriorityOf(Str(level)), minP)

\* The object literal with ...data spread first, so that the fixed members win
BuildEntryFixedWins(ts, level, message, envValue, serviceValue, data) ==
    Spread(data,
           [timestamp |-> Str(ts), level |-> Str(level), message |-> Str(message),
            env |-> envValue, service |-> serviceValue])

\* The object literal without the ...data spread
BuildEntryWithoutData(ts, level, message, envValue, serviceValue, data) ==
    [timestamp |-> Str(ts), level |-> Str(level), message |-> Str(message),
     env |-> envValue, service |-> serviceValue]

\* The object literal of Logger.log: the five fixed members, then ...data
BuildEntry(ts, level, message, envValue, serviceValue, data) ==
    Spread([timestamp |-> Str(ts), level |-> Str(level), message |-> Str(message),
            env |-> envValue, service |-> serviceValue],
           data)

\* The environment resolved again on every call instead of once
LoggerEnvLazy == ResolveEnv(options, denoEnv)

\* this.env as Logger.log reads it
LoggerEnv == env

Returned == [threw |-> FALSE, error |-> ""]

Threw(e) == [threw |-> TRUE, error |-> e]

\* Logger.log with the sink call wrapped in a try whose catch is empty
CallResultSwallowed(sinkResult) == Returned

\* How Logger.log ends given how this.output(entry) ended: the call is not
\* wrapped in a try, so what the sink raises leaves log as it is
CallResult(sinkResult) == sinkResult

\* The sink invoked a second time when its first invocation raised
DeliverWithRetry(invocations, invocation) ==
    IF invocation.result.threw
    THEN Append(Append(invocations, invocation), invocation)
    ELSE Append(invocations, invocation)

\* this.output(entry): one invocation of the sink, made before log returns
Deliver(invocations, invocation) == Append(invocations, invocation)

\* How an invocation of the sink ends: the default sink writes a line and
\* returns, the caller's sink returns or raises
SinkResult(out, raises) ==
    IF out = Fn("custom") /\ raises THEN Threw(SinkError) ELSE Returned

Log(level, at, message, dataArg, raises) ==
    LET data == IF dataArg = Undefined THEN EmptyObject ELSE dataArg
    IN  /\ constructed
        /\ Len(calls) < MaxCalls
        /\ IF BelowThreshold(level, minPriority)
           THEN /\ calls' = Append(calls, [level |-> level, result |-> Returned])
                /\ UNCHANGED <<sinkCalls, stdout, allocated>>
           ELSE LET entry == BuildEntry(ToISOString(at), level, message,
                                        LoggerEnv, service, data)
                    r == SinkResult(output, raises)
                IN  /\ allocated' = allocated + 1
                    /\ sinkCalls' = Deliver(sinkCalls,
                                            [entry |-> entry, ref |-> allocated + 1,
                                             call |-> Len(calls) + 1, level |-> level,
                                             at |-> at, message |-> message,
                                             data |-> dataArg, result |-> r])
                    /\ stdout' = IF output = Fn("default")
                                 THEN Append(stdout, JsonStringify(entry))
                                 ELSE stdout
                    /\ calls' = Append(calls, [level |-> level,
                                               result |-> CallResult(r)])
        /\ UNCHANGED <<denoEnv, config>>

Debug == \E c \in CallInputs : Log("debug", c.at, c.message, c.data, c.raises)

Info == \E c \in CallInputs : Log("info", c.at, c.message, c.data, c.raises)

Warn == \E c \in CallInputs : Log("warn", c.at, c.message, c.data, c.raises)

Error == \E c \in CallInputs : Log("error", c.at, c.message, c.data, c.raises)

Critical == \E c \in CallInputs : Log("critical", c.at, c.message, c.data, c.raises)

Next ==
    \/ SetDenoEnv
    \/ Construct
    \/ Debug
    \/ Info
    \/ Warn
    \/ Error
    \/ Critical

Spec == Init /\ [][Next]_vars

(***************************************************************************)
(* Vocabulary of the properties.                                           *)
(***************************************************************************)
\* The minimum severity the logger was configured with (info when absent)
ConfiguredLevel == Nullish(Get(options, "minLevel"), Str("info"))

\* The logger was constructed with one of the five recognized severities
ValidThreshold == constructed /\ ConfiguredLevel.s \in LogLevel

\* priority(S) < priority(T) for the configured minimum T
Below(level) == LEVEL_PRIORITY[level] < LEVEL_PRIORITY[ConfiguredLevel.s]

\* The invocations of the sink made for call i
InvocationsOf(i) == {j \in 1..Len(sinkCalls) : sinkCalls[j].call = i}

\* The additional fields of an invocation's call ({} when none were passed)
FieldsOf(inv) == IF inv.data = Undefined THEN EmptyObject ELSE inv.data

FixedKeys == {"timestamp", "level", "message", "env", "service"}

(***************************************************************************)
(* C1: a call whose severity is strictly below the configured minimum      *)
(* invokes the sink zero times, constructs no entry and raises no error.   *)
(***************************************************************************)
FilteredCallIsSilent ==
    ValidThreshold =>
        /\ \A i \in 1..Len(calls) :
              Below(calls[i].level) =>
                  /\ InvocationsOf(i) = {}
                  /\ calls[i].result = Returned
        /\ allocated = Cardinality({i \in 1..Len(calls) : ~Below(calls[i].level)})

\* A debug and an error call on a logger with minLevel warn: only the second
\* reached the sink
FilteredCallWitness ==
    /\ constructed
    /\ Get(options, "minLevel") = Str("warn")
    /\ Len(calls) = 2
    /\ calls[1].level = "debug"
    /\ calls[2].level = "error"
    /\ Len(sinkCalls) = 1
    /\ allocated = 1

(***************************************************************************)
(* C2 as stated: a call at or above the configured minimum causes exactly  *)
(* one sink invocation, and the entry's level is the method's severity.    *)
(***************************************************************************)
AcceptedCallCarriesMethodLevel ==
    ValidThreshold =>
        \A i \in 1..Len(calls) :
            ~Below(calls[i].level) =>
                /\ Cardinality(InvocationsOf(i)) = 1
                /\ \A j \in InvocationsOf(i) :
                      sinkCalls[j].entry.level = Str(calls[i].level)

(***************************************************************************)
(* C2 amended: a call at or above the configured minimum causes exactly    *)
(* one sink invocation; the entry's level is the method's severity when    *)
(* the additional fields hold no level key, and the caller's value for     *)
(* that key when they do.                                                  *)
(***************************************************************************)
AcceptedCallReachesSinkOnce ==
    ValidThreshold =>
        \A i \in 1..Len(calls) :
            ~Below(calls[i].level) =>
                /\ Cardinality(InvocationsOf(i)) = 1
                /\ \A j \in InvocationsOf(i) :
                      sinkCalls[j].entry.level =
                          IF "level" \in DOMAIN FieldsOf(sinkCalls[j])
                          THEN FieldsOf(sinkCalls[j]).level
                          ELSE Str(calls[i].level)

\* A warn call on a logger with minLevel warn, without a level field, next
\* to a call whose level field replaced the severity
AcceptedCallWitness ==
    /\ constructed
    /\ Get(options, "minLevel") = Str("warn")
    /\ Len(sinkCalls) = 2
    /\ calls[1].level = "warn"
    /\ sinkCalls[1].data = Undefined
    /\ sinkCalls[1].entry.level = Str("warn")
    /\ "level" \in DOMAIN FieldsOf(sinkCalls[2])
    /\ sinkCalls[2].entry.level = Str("bogus")

(***************************************************************************)
(* C3: every key of the additional fields appears in the entry with the    *)
(* caller's value, fixed keys included; the fixed fields the caller did    *)
(* not supply keep their fixed values.                                     *)
(***************************************************************************)
FixedValue(inv, key) ==
    CASE key = "timestamp" -> Str(ToISOString(inv.at))
      [] key = "level" -> Str(inv.level)
      [] key = "message" -> Str(inv.message)
      [] key = "env" -> env
      [] key = "service" -> service

CallerFieldsWin ==
    \A j \in 1..Len(sinkCalls) :
        LET inv == sinkCalls[j]
            d == FieldsOf(inv)
        IN  /\ \A k \in DOMAIN d : k \in DOMAIN inv.entry /\ inv.entry[k] = d[k]
            /\ \A k \in FixedKeys \ DOMAIN d :
                  k \in DOMAIN inv.entry /\ inv.entry[k] = FixedValue(inv, k)
            /\ DOMAIN inv.entry = FixedKeys \cup DOMAIN d

\* An entry whose level is the caller's "bogus" while its message is the
\* method's argument
CallerFieldsWitness ==
    \E j \in 1..Len(sinkCalls) :
        /\ sinkCalls[j].level = "info"
        /\ "level" \in DOMAIN FieldsOf(sinkCalls[j])
        /\ sinkCalls[j].entry.level = Str("bogus")
        /\ sinkCalls[j].entry.message = Str("Test message")
        /\ sinkCalls[j].entry.timestamp = Str("1970-01-01T00:00:00.512Z")

(***************************************************************************)
(* C4 as stated: on a logger constructed without a service name, an entry  *)
(* handed to the sink (for a call without a service field) has no service  *)
(* key; with a service name configured the key holds that name.            *)
(***************************************************************************)
AbsentServiceHasNoKey ==
    \A j \in 1..Len(sinkCalls) :
        "service" \notin DOMAIN FieldsOf(sinkCalls[j]) =>
            IF "serviceName" \in DOMAIN options
            THEN /\ "service" \in DOMAIN sinkCalls[j].entry
                 /\ sinkCalls[j].entry.service = options.serviceName
            ELSE "service" \notin DOMAIN sinkCalls[j].entry

(***************************************************************************)
(* C5: an error the sink raises leaves the emission method unchanged; the  *)
(* sink was invoked once for that call, and the logger keeps its           *)
(* configuration and serves the calls that follow.                         *)
(***************************************************************************)
\* Call i is one the sink raised on
SinkRaisedOn(i) == \E j \in InvocationsOf(i) : sinkCalls[j].result.threw

RoundTrip(entry) == JsonParse(JsonStringify(entry))

RoundTripKeepsInputs ==
    \A j \in 1..Len(sinkCalls) :
        LET inv == sinkCalls[j]
            d == FieldsOf(inv)
            parsed == RoundTrip(inv.entry)
        IN  /\ Get(parsed, "message") = Str(inv.message)
            /\ Get(parsed, "level") = Str(inv.level)
            /\ \A k \in DOMAIN d : k \in DOMAIN parsed /\ parsed[k] = d[k]

(***************************************************************************)
(* C6 amended: parsing the JSON serialization of the entry yields the      *)
(* call's message when the additional fields hold no message key, the      *)
(* method's severity as level when they hold no level key, and every key   *)
(* of the additional fields whose value JSON can represent (a string, a    *)
(* finite number or null, not undefined or NaN) with the value supplied.   *)
(***************************************************************************)
JsonRepresentable(v) ==
    \/ v.t = "string"
    \/ v.t = "null"
    \/ v.t = "number" /\ v.s = ""

RoundTripKeepsRepresentableInputs ==
    \A j \in 1..Len(sinkCalls) :
        LET inv == sinkCalls[j]
            d == FieldsOf(inv)
            parsed == RoundTrip(inv.entry)
        IN  /\ "message" \notin DOMAIN d => Get(parsed, "message") = Str(inv.message)
            /\ "level" \notin DOMAIN d => Get(parsed, "level") = Str(inv.level)
            /\ \A k \in DOMAIN d :
                  JsonRepresentable(d[k]) => k \in DOMAIN parsed /\ parsed[k] = d[k]

\* The round trip of the entry of info("Should not log") and of
\* warn("Test message", {key, user, level, ratio}) on a logger with the
\* default sink, whose lines on standard output are those serializations
RoundTripWitness ==
    /\ output = Fn("default")
    /\ Len(sinkCalls) = 2
    /\ sinkCalls[1].level = "info"
    /\ sinkCalls[1].data = Undefined
    /\ RoundTrip(sinkCalls[1].entry).level = Str("info")
    /\ RoundTrip(sinkCalls[1].entry).message = Str("Should not log")
    /\ sinkCalls[2].level = "warn"
    /\ sinkCalls[2].message = "Test message"
    /\ RoundTrip(sinkCalls[2].entry).message = Str("Test message")
    /\ RoundTrip(sinkCalls[2].entry).key = Str("value")
    /\ RoundTrip(sinkCalls[2].entry).user = Num(42)
    /\ \A j \in 1..2 : stdout[j] = JsonStringify(sinkCalls[j].entry)

(***************************************************************************)
(* C7: threshold, service name and environment are fixed at construction:  *)
(* no step changes them, the variable is read at most once and never by a  *)
(* call, and the filtering and the env and service of every entry are the  *)
(* ones resolved when the constructor ran, whatever the variable is now.   *)
(***************************************************************************)
\* The environment the constructor resolved, from what it was given and read
EnvAtConstruction ==
    IF "env" \in DOMAIN options
    THEN options.env
    ELSE Nullish(envReads[1], Str("dev"))

ConfigurationUsedIsTheResolvedOne ==
    constructed =>
        /\ Len(envReads) = (IF "env" \in DOMAIN options THEN 0 ELSE 1)
        /\ minPriority = ResolveMinPriority(options)
        /\ service = Get(options, "serviceName")
        /\ env = EnvAtConstruction
        /\ \A i \in 1..Len(calls) :
              (InvocationsOf(i) = {}) <=>
                  JsLess(PriorityOf(Str(calls[i].level)), ResolveMinPriority(options))
        /\ \A j \in 1..Len(sinkCalls) :
              /\ "env" \notin DOMAIN FieldsOf(sinkCalls[j]) =>
                    sinkCalls[j].entry.env = EnvAtConstruction
              /\ "service" \notin DOMAIN FieldsOf(sinkCalls[j]) =>
                    sinkCalls[j].entry.service = Get(options, "serviceName")

ConfigurationFixed ==
    /\ []ConfigurationUsedIsTheResolvedOne
    /\ [][constructed => UNCHANGED <<minPriority, service, env, envReads, options>>]_vars

\* An entry carrying the environment read at construction after the variable
\* was unset, on a logger that has also filtered a call
ConfigurationFixedWitness ==
    /\ constructed
    /\ envReads = <<Str("staging")>>
    /\ denoEnv = Undefined
    /\ Len(calls) = 2
    /\ InvocationsOf(1) = {}
    /\ Len(sinkCalls) = 1
    /\ sinkCalls[1].entry.env = Str("staging")

(***************************************************************************)
(* C8 as stated: the environment is the env option when supplied, and      *)
(* otherwise DENO_ENV when it is set to a non-empty string and 'dev' when  *)
(* it is not; entries without an env field carry that value.               *)
(***************************************************************************)
DocumentedEnv ==
    IF "env" \in DOMAIN options
    THEN options.env
    ELSE OrElse(envReads[1], Str("dev"))

EnvDefaultIsDocumentedOne ==
    constructed =>
        /\ env = DocumentedEnv
        /\ \A j \in 1..Len(sinkCalls) :
              "env" \notin DOMAIN FieldsOf(sinkCalls[j]) =>
                  sinkCalls[j].entry.env = DocumentedEnv

(***************************************************************************)
(* C9 as stated: a minimum severity outside the five recognized names      *)
(* never yields a logger: the constructor fails instead of leaving the     *)
(* threshold undefined.                                                    *)
(***************************************************************************)
UnknownMinLevelRejected ==
    constructed => ConfiguredLevel.s \in LogLevel /\ minPriority.t = "number"

(***************************************************************************)
(* C10: the sink invocations are the calls at or above the threshold, in   *)
(* call order, one per call, each with an entry object constructed for     *)
(* that invocation alone, and none is outstanding once its call returned.  *)
(***************************************************************************)
NoBufferingNoReordering ==
    ValidThreshold =>
        /\ {sinkCalls[j].call : j \in 1..Len(sinkCalls)} =
              {i \in 1..Len(calls) : ~Below(calls[i].level)}
        /\ \A j, k \in 1..Len(sinkCalls) :
              j < k => /\ sinkCalls[j].call < sinkCalls[k].call
                       /\ sinkCalls[j].ref # sinkCalls[k].ref
        /\ \A j \in 1..Len(sinkCalls) :
              /\ sinkCalls[j].level = calls[sinkCalls[j].call].level
              /\ sinkCalls[j].ref = j
        /\ allocated = Len(sinkCalls)

\* Two accepted calls with the same arguments, the first ending in a sink
\* error: two invocations, in call order, with equal entries that are two
\* objects
NoBufferingWitness ==
    /\ Len(calls) = 2
    /\ Len(sinkCalls) = 2
    /\ sinkCalls[1].call = 1
    /\ sinkCalls[2].call = 2
    /\ sinkCalls[1].entry = sinkCalls[2].entry
    /\ sinkCalls[1].ref # sinkCalls[2].ref
    /\ sinkCalls[1].result.threw

====
